---- MODULE Spec2Model ----
(***************************************************************************)
(* Model of dopest() in source/dopest.py: estimation of Doppler (carrier   *)
(* phase rate) values from the carrier phase of each continuous arc.       *)
(*                                                                         *)
(* The observation store is a function epoch -> (satellite -> record); a   *)
(* record is a function from field names to values, so that a key may be   *)
(* absent as in the Python dictionaries.  One action is one iteration of   *)
(* the innermost loop (lines 90-153), split by the branch it takes.        *)
(***************************************************************************)
EXTENDS Integers, Sequences, FiniteSets, TLC

\* ------------------------------------------------------------------ bounds
NumEpochs == 3

\* The largest number of whole days in a time step
MaxStepDays == 1

\* ------------------------------------------------------------------ inputs
\* Epochs of the session, evenly spaced by rnxstep (keys of rnxdata).
Epochs == 1..NumEpochs
\* The satellites of the store.
Sats == {1, 2}
\* The bands a record can carry, 'L1'/'L2' and 'D1'/'D2'.
Bands == {1, 2}
\* rnxstep, the time between two epochs, in epoch units.
rnxstep == 1
Flags == {"start", "none", "end", "solo", "slip"}
ArcFlags == {"start", "none", "end"}

\* 'L'+str(f) and 'D'+str(f)
LField(band) == IF band = 1 THEN "L1" ELSE "L2"
DField(band) == IF band = 1 THEN "D1" ELSE "D2"

\* The carrier phase the receiver measured: distinct for every
\* (epoch, satellite, band), so that a buffer entry identifies its epoch.
PhaseOf(te, q, band) == 100 * q + 10 * band + te

\* The invalid Doppler value, the string 'NaN' of line 104.
NaN == [nan |-> TRUE, buf |-> <<>>, idx |-> 0]

\* One element of D (line 144): (L - L_delta)/(delta*step) at 0-based index k
\* is a function of the whole buffer (through the polynomial fit) and of k.
Rate(buf, k) == [nan |-> FALSE, buf |-> buf, idx |-> k]

\* An observation record as rinxtr/phasep deliver it: flag, a code range and
\* the carrier phases, without the phases of the bands in miss.
MkRecord(te, q, flag, miss) ==
    [k \in ({"flag", "P1", "L1", "L2"} \ {LField(b) : b \in miss}) |->
        CASE k = "flag" -> flag
          [] k = "P1"   -> 1000 + PhaseOf(te, q, 1)
          [] k = "L1"   -> PhaseOf(te, q, 1)
          [] k = "L2"   -> PhaseOf(te, q, 2)]

\* Flag sequences of satellite 2.
ProfSolo == [te \in Epochs |-> "solo"]
ProfArc == [te \in Epochs |-> IF te = 1 THEN "start"
                              ELSE IF te = NumEpochs THEN "end" ELSE "none"]
ProfSlip == [te \in Epochs |-> IF te = 1 THEN "start"
                               ELSE IF te = NumEpochs THEN "end" ELSE "slip"]

\* The stores of the model: satellite 1 has any flag or no record at each
\* epoch, and at most one of its records lacks one phase (band mb at epoch
\* mt); satellite 2 follows a profile.
MkStore(seq1, prof, mt, mb) ==
    [te \in Epochs |->
        [q \in {x \in Sats : x # 1 \/ seq1[te] # "absent"} |->
            IF q = 1 THEN MkRecord(te, q, seq1[te], IF te = mt THEN {mb} ELSE {})
            ELSE MkRecord(te, q, prof[te], {})]]

\* goodsats (a sorted list) with the profile of satellite 2: satellite 2 is
\* either left out of goodsats or processed after satellite 1.
Setups ==
    {[gs |-> <<1>>, prof |-> ProfArc],
     [gs |-> <<1, 2>>, prof |-> ProfSolo],
     [gs |-> <<1, 2>>, prof |-> ProfArc],
     [gs |-> <<1, 2>>, prof |-> ProfSlip]}

\* inps['freq'] (1 or 2) with the place of the missing phase, if any, in a
\* processed band.
FreqSetups ==
    {[freq |-> fq, mt |-> 0, mb |-> 0] : fq \in {1, 2}}
    \cup {fs \in [freq : {1, 2}, mt : Epochs, mb : Bands] : fs.mb <= fs.freq}

\* ------------------------------------------------------------------- state
VARIABLES
    rnxdata,        \* the caller's store (parameter rnxdata)
    goodsats,       \* parameter goodsats
    freqnum,        \* inps['freq']
    rnxout,         \* the working copy (line 77)
    dopp_condition, \* line 78
    L,              \* the carrier phase array (line 87)
    D,              \* the Doppler list of the last estimation (line 144)
    f,              \* loop variable of line 82
    pi,             \* position in goodsats of the loop variable p (line 85)
    t,              \* loop variable of line 90
    pc,             \* "loop", "exit" (loops finished), "returned", "raised"
    result,         \* what the call returned
    step,           \* parameter rnxstep as a datetime.timedelta
    divisor         \* float(rnxstep.seconds) of the last estimation (line 144)

vars == <<rnxdata, goodsats, freqnum, rnxout, dopp_condition, L, D, f, pi, t,
          pc, result, step, divisor>>

\* ---------------------------------------------------------------- helpers
\* rec[k] = v on a dictionary
SetField_Replace(rec, k, v) == [x \in {k} |-> v]
SetField(rec, k, v) ==
    [x \in DOMAIN rec \cup {k} |-> IF x = k THEN v ELSE rec[x]]

\* rnxout[te][p][fld] = v
WriteRate(out, te, p, fld, v) ==
    [out EXCEPT ![te] = [@ EXCEPT ![p] = SetField(@, fld, v)]]

\* copy.deepcopy(rnxdata), line 77: an independent store with equal content
DeepCopy(store) == store

\* The identity of the record object the caller's store holds for (te, q)
InRef(te, q) == <<"rnxdata", te, q>>

\* copy.deepcopy, line 77, on object identities: every record of the copy is
\* a new object
CopyRef_Shared(ref) == ref
CopyRef(ref) == <<"rnxout", ref[2], ref[3]>>

\* The caller's store after the function wrote to its working store: a record
\* shows the write when the working store holds the very same object
CallerStore(inp, out) ==
    [te \in DOMAIN inp |->
        [q \in DOMAIN inp[te] |->
            IF CopyRef(InRef(te, q)) = InRef(te, q) THEN out[te][q]
            ELSE inp[te][q]]]

\* A datetime.timedelta, normalised as Python keeps it: days, 0 <= seconds <
\* 86400 and 0 <= microseconds < 1000000
TimeDelta(dd, ss, us) == [days |-> dd, seconds |-> ss, microseconds |-> us]
OneSecond == TimeDelta(0, 1, 0)

\* The positive time steps of the model: whole seconds, half seconds, days
StepChoices ==
    {TimeDelta(dd, ss, us) :
        dd \in 0..MaxStepDays, ss \in {0, 1, 30, 86399}, us \in {0, 500000}}
    \ {TimeDelta(0, 0, 0)}

\* The duration of a timedelta, in microseconds
TotalMicroseconds(td) ==
    (((td.days * 86400) + td.seconds) * 1000000) + td.microseconds

\* rnxstep.seconds, the attribute line 144 reads
StepSeconds(td) == td.seconds

\* Return values
NoResult == [kind |-> "none", store |-> <<>>]
ReturnFalse == [kind |-> "False", store |-> <<>>]
ReturnStore(out) == [kind |-> "store", store |-> out]

\* What line 125 returns
MissingPhaseReturn(out) == ReturnFalse

\* The flag updates of lines 110-116
ArcBuffer(flag, buf) == IF flag = "start" THEN <<>> ELSE buf

ArcReady_NoneReady(flag, dopp) ==
    CASE flag = "start" -> FALSE
      [] flag = "none"  -> TRUE
      [] flag = "end"   -> TRUE
      [] OTHER          -> dopp

ArcReady(flag, dopp) ==
    CASE flag = "start" -> FALSE
      [] flag = "none"  -> FALSE
      [] flag = "end"   -> TRUE
      [] OTHER          -> dopp

\* Which field lines 104 and 149 write, and which one line 120 reads
RateField_AlwaysBand1(band) == DField(1)
RateField(band) == DField(band)
PhaseField(band) == LField(band)

\* The test of line 96 and the test of line 103
HasRecord(out, te, p) == te \in DOMAIN out /\ p \in DOMAIN out[te]
IsIsolated_SoloOnly(flag) == flag = "solo"
IsIsolated(flag) == flag = "solo" \/ flag = "slip"

\* The test of line 119
HasPhase_UnlessRate(rec, band) ==
    PhaseField(band) \in DOMAIN rec /\ RateField(band) \notin DOMAIN rec
HasPhase(rec, band) == PhaseField(band) \in DOMAIN rec

\* Lines 96-125: the record of satellite p at epoch te.
\* st = [out, L, D, dopp, pc, step, div]
HandleRecord(st, band, p, te) ==
    IF ~HasRecord(st.out, te, p) THEN st
    ELSE LET rec == st.out[te][p]
             flag == rec["flag"]
         IN IF IsIsolated(flag)
            THEN [st EXCEPT !.out = WriteRate(st.out, te, p, RateField(band), NaN),
                            !.dopp = FALSE]
            ELSE LET buf == ArcBuffer(flag, st.L)
                     rdy == ArcReady(flag, st.dopp)
                 IN IF HasPhase(rec, band)
                    THEN [st EXCEPT !.L = Append(buf, rec[PhaseField(band)]),
                                    !.dopp = rdy]
                    ELSE [st EXCEPT !.L = buf, !.dopp = rdy, !.pc = "false"]

\* The epoch line 149 writes for loop value k
TargetEpoch(te, k) == te - (k * rnxstep)

\* Lines 148-150: for k in reversed(range(0, len(D))), with counter d.
\* A missing key raises KeyError and leaves the writes made so far.
RECURSIVE WriteBack(_, _, _, _, _, _)
WriteBack(out, rates, d, te, p, band) ==
    IF d = Len(rates) THEN [out |-> out, ok |-> TRUE]
    ELSE LET k == Len(rates) - 1 - d
             tgt == TargetEpoch(te, k)
         IN IF ~HasRecord(out, tgt, p) THEN [out |-> out, ok |-> FALSE]
            ELSE WriteBack(WriteRate(out, tgt, p, RateField(band), rates[d + 1]),
                           rates, d + 1, te, p, band)

\* The state of L and dopp_condition after an estimation (lines 152-153)
AfterEstimateL(buf) == <<>>
AfterEstimateReady_Keep(dopp) == dopp
AfterEstimateReady(dopp) == FALSE

\* Lines 128-153
Estimate(st, band, p, te) ==
    LET rates == [i \in 1..Len(st.L) |-> Rate(st.L, i - 1)]
        wb == WriteBack(st.out, rates, 0, te, p, band)
    IN IF wb.ok
       THEN [st EXCEPT !.out = wb.out, !.D = rates,
                       !.div = StepSeconds(st.step),
                       !.L = AfterEstimateL(st.L),
                       !.dopp = AfterEstimateReady(st.dopp)]
       ELSE [st EXCEPT !.out = wb.out, !.D = rates,
                       !.div = StepSeconds(st.step), !.pc = "raised"]

\* Lines 96-153: one iteration of the loop over the epochs
Body(st, band, p, te) ==
    LET s1 == HandleRecord(st, band, p, te)
    IN IF s1.pc # "loop" THEN s1
       ELSE IF s1.dopp = TRUE THEN Estimate(s1, band, p, te)
       ELSE s1

\* Line 87: the buffer a new satellite starts with
NewSatL(buf) == <<>>

\* The satellites line 85 iterates over
LoopSats_AllInStore(gs, store) == <<1, 2>>
LoopSats(gs, store) == gs

\* ------------------------------------------------------------------- Init
\* Lines 75-90: the state in which the first iteration starts
InitRun ==
    /\ rnxout = DeepCopy(rnxdata)
    /\ dopp_condition = FALSE
    /\ L = <<>>
    /\ D = <<>>
    /\ f = 1
    /\ pi = 1
    /\ t = 1
    /\ pc = IF Len(LoopSats(goodsats, rnxdata)) = 0 THEN "exit" ELSE "loop"
    /\ result = NoResult
    /\ divisor = -1

Init ==
    /\ \E su \in Setups, fs \in FreqSetups,
          seq1 \in [Epochs -> Flags \cup {"absent"}] :
            /\ rnxdata = MkStore(seq1, su.prof, fs.mt, fs.mb)
            /\ goodsats = su.gs
            /\ freqnum = fs.freq
    /\ step = OneSecond
    /\ InitRun

\* Flag sequences of satellite 1 for the runs with other time steps: an arc,
\* an arc with a slip, an arc with epochs without record
ProfGap == [te \in Epochs |-> IF te = 1 THEN "start"
                              ELSE IF te = NumEpochs THEN "end" ELSE "absent"]

\* The same function called with any positive time step
InitStep ==
    /\ \E seq1 \in {ProfArc, ProfSlip, ProfGap}, mt \in {0, NumEpochs},
          stp \in StepChoices :
            /\ rnxdata = MkStore(seq1, ProfSolo, mt, 1)
            /\ step = stp
    /\ goodsats = <<1, 2>>
    /\ freqnum = 1
    /\ InitRun

\* ---------------------------------------------------------------- actions
p == LoopSats(goodsats, rnxdata)[pi]

Cur ==
    [out |-> rnxout, L |-> L, D |-> D, dopp |-> dopp_condition, pc |-> "loop",
     step |-> step, div |-> divisor]

\* Advance the three loops (lines 82, 85, 90) after an iteration
Advance(buf) ==
    IF t < NumEpochs
    THEN /\ t' = t + 1 /\ pi' = pi /\ f' = f /\ pc' = "loop" /\ L' = buf
    ELSE IF pi < Len(LoopSats(goodsats, rnxdata))
    THEN /\ t' = 1 /\ pi' = pi + 1 /\ f' = f /\ pc' = "loop" /\ L' = NewSatL(buf)
    ELSE IF f < freqnum
    THEN /\ t' = 1 /\ pi' = 1 /\ f' = f + 1 /\ pc' = "loop" /\ L' = NewSatL(buf)
    ELSE /\ t' = t /\ pi' = pi /\ f' = f /\ pc' = "exit" /\ L' = buf

\* The iteration of the current (f, p, t), whatever its branch
Iterate ==
    LET s == Body(Cur, f, p, t)
    IN /\ rnxout' = s.out
       /\ D' = s.D
       /\ dopp_condition' = s.dopp
       /\ divisor' = s.div
       /\ rnxdata' = CallerStore(rnxdata, s.out)
       /\ IF s.pc = "loop" THEN /\ Advance(s.L)
                                /\ result' = result
          ELSE IF s.pc = "false"
          THEN /\ L' = s.L /\ pc' = "returned"
               /\ result' = MissingPhaseReturn(s.out)
               /\ UNCHANGED <<f, pi, t>>
          ELSE /\ L' = s.L /\ pc' = "raised"
               /\ result' = result
               /\ UNCHANGED <<f, pi, t>>
       /\ UNCHANGED <<goodsats, freqnum, step>>

CurFlag == rnxout[t][p]["flag"]
CurHasPhase == HasPhase(rnxout[t][p], f)

\* Line 96 false: the satellite has no record at this epoch
SkipAbsent ==
    /\ pc = "loop"
    /\ ~HasRecord(rnxout, t, p)
    /\ Iterate

\* Lines 103-105
MarkIsolated ==
    /\ pc = "loop"
    /\ HasRecord(rnxout, t, p)
    /\ IsIsolated(CurFlag)
    /\ Iterate

\* Lines 110-114, 119-120: a start or none record joins the buffer
Accumulate ==
    /\ pc = "loop"
    /\ HasRecord(rnxout, t, p)
    /\ ~IsIsolated(CurFlag)
    /\ CurHasPhase
    /\ ~ArcReady(CurFlag, dopp_condition)
    /\ Iterate

\* Lines 115-120 and 128-153: an end record, then the estimation
EstimateArc ==
    /\ pc = "loop"
    /\ HasRecord(rnxout, t, p)
    /\ ~IsIsolated(CurFlag)
    /\ CurHasPhase
    /\ ArcReady(CurFlag, dopp_condition)
    /\ Body(Cur, f, p, t).pc = "loop"
    /\ Iterate

\* Line 149 raising KeyError: the run ends with the exception
EstimateKeyError ==
    /\ pc = "loop"
    /\ HasRecord(rnxout, t, p)
    /\ ~IsIsolated(CurFlag)
    /\ CurHasPhase
    /\ ArcReady(CurFlag, dopp_condition)
    /\ Body(Cur, f, p, t).pc = "raised"
    /\ Iterate

\* Lines 122-125
MissingPhase ==
    /\ pc = "loop"
    /\ HasRecord(rnxout, t, p)
    /\ ~IsIsolated(CurFlag)
    /\ ~CurHasPhase
    /\ Iterate

\* Lines 155-156
Return ==
    /\ pc = "exit"
    /\ pc' = "returned"
    /\ result' = ReturnStore(rnxout)
    /\ UNCHANGED <<rnxdata, goodsats, freqnum, rnxout, dopp_condition, L, D,
                   f, pi, t, step, divisor>>

Next ==
    \/ SkipAbsent
    \/ MarkIsolated
    \/ Accumulate
    \/ EstimateArc
    \/ EstimateKeyError
    \/ MissingPhase
    \/ Return

Spec == Init /\ [][Next]_vars

SpecStep == InitStep /\ [][Next]_vars

\* ------------------------------------------- the run as a pure function
\* Lines 90-153 for one (band, satellite): the epochs in time order
RECURSIVE RunEpochs(_, _, _, _)
RunEpochs(st, band, q, te) ==
    IF st.pc # "loop" \/ te > NumEpochs THEN st
    ELSE RunEpochs(Body(st, band, q, te), band, q, te + 1)

\* Lines 87-153 for one (satellite, band) pair
RunPair(st, pair) ==
    IF st.pc # "loop" THEN st
    ELSE RunEpochs([st EXCEPT !.L = NewSatL(st.L)], pair.band, pair.sat, 1)

\* The pairs processed one after the other in the given order
RECURSIVE RunOrder(_, _)
RunOrder(st, order) ==
    IF order = <<>> THEN st
    ELSE RunOrder(RunPair(st, Head(order)), Tail(order))

\* Lines 77-78: the state the loops start from
StartState(store) ==
    [out |-> DeepCopy(store), L |-> <<>>, D |-> <<>>, dopp |-> FALSE, pc |-> "loop",
     step |-> OneSecond, div |-> -1]

\* The order of lines 82 and 85: band-major, then goodsats order
CodeOrder(gs, fq) ==
    [i \in 1..(fq * Len(gs)) |->
        [band |-> ((i - 1) \div Len(gs)) + 1, sat |-> gs[((i - 1) % Len(gs)) + 1]]]

\* dopest(store, gs, ..., inps) as a function of its inputs
Dopest(store, gs, fq) ==
    LET s == RunOrder(StartState(store), CodeOrder(LoopSats(gs, store), fq))
    IN IF s.pc = "loop" THEN ReturnStore(s.out)
       ELSE IF s.pc = "false" THEN MissingPhaseReturn(s.out)
       ELSE [kind |-> "raised", store |-> <<>>]

\* ------------------------------------------------------------ vocabulary
GoodSet == {goodsats[i] : i \in 1..Len(goodsats)}
Processed == 1..freqnum
Succeeded == pc = "returned" /\ result.kind = "store"
Ended == pc \in {"returned", "raised"}
InFlag(te, q) == rnxdata[te][q]["flag"]
HasRate(store, te, q, band) == DField(band) \in DOMAIN store[te][q]
RateAt(store, te, q, band) == store[te][q][DField(band)]

\* ------------------------------------------------------------------ C1
\* C1: after a successful run, every record of a good satellite flagged solo
\* or slip holds the sentinel 'NaN' in D<f> of every processed band, whatever
\* the flags of the satellite's other epochs.
C1_IsolatedHoldSentinel ==
    Succeeded =>
        \A q \in GoodSet, band \in Processed, te \in Epochs :
            (HasRecord(rnxdata, te, q) /\ InFlag(te, q) \in {"solo", "slip"}) =>
                /\ HasRate(result.store, te, q, band)
                /\ RateAt(result.store, te, q, band) = NaN

\* ------------------------------------------------------------------ C2
\* C2: after a successful run, every record of a good satellite has the field
\* D<f> for every processed band f, also when an arc is never closed.
C2_RatePopulated ==
    Succeeded =>
        \A q \in GoodSet, band \in Processed, te \in Epochs :
            HasRecord(rnxdata, te, q) => HasRate(result.store, te, q, band)

\* ------------------------------------------------------------------ C3
\* The epoch the k-th (0-based) of n buffer entries belongs to, counted back
\* from the epoch te of the estimation
EpochOfEntry(te, n, k) == te - ((n - 1 - k) * rnxstep)

\* C3: an estimation at epoch t writes the rate of the k-th buffer entry to
\* epoch t - (n-1-k)*step, and that epoch is the one whose phase value is the
\* k-th buffer entry.
C3_RatesOnOwnEpochs ==
    [][EstimateArc =>
        \A k \in 0..(Len(D') - 1) :
            LET te == EpochOfEntry(t, Len(D'), k)
            IN /\ HasRecord(rnxout', te, p)
               /\ HasRate(rnxout', te, p, f)
               /\ RateAt(rnxout', te, p, f) = D'[k + 1]
               /\ LField(f) \in DOMAIN rnxout[te][p]
               /\ rnxout[te][p][LField(f)] = D'[k + 1].buf[k + 1]]_vars

\* ------------------------------------------------------------------ C4
\* C4: the estimation at an end record writes as many rates as there are
\* epochs from the start record of the arc (the last start before it, with
\* no end in between) to that end record, inclusive.
C4_OneRatePerArcEpoch ==
    [][EstimateArc =>
        \A ts \in Epochs :
            (/\ ts < t
             /\ HasRecord(rnxdata, ts, p)
             /\ InFlag(ts, p) = "start"
             /\ \A u \in (ts + 1)..(t - 1) :
                    ~(HasRecord(rnxdata, u, p) /\ InFlag(u, p) \in {"start", "end"}))
            => Len(D') = (t - ts) + 1]_vars

\* ------------------------------------------------------------------ C5
\* A record of a good satellite flagged start, none or end lacks the phase
\* of a processed band
SomePhaseMissing ==
    \E q \in GoodSet, band \in Processed, te \in Epochs :
        /\ HasRecord(rnxdata, te, q)
        /\ InFlag(te, q) \in ArcFlags
        /\ LField(band) \notin DOMAIN rnxdata[te][q]

NoRateIn(store) ==
    \A te \in Epochs : \A q \in DOMAIN store[te] : \A band \in Bands :
        ~HasRate(store, te, q, band)

\* C5: when such a phase is missing, the call ends by returning False, no
\* store, and the caller's store has gained no rate field.
C5_MissingPhaseReturnsFalse ==
    (Ended /\ SomePhaseMissing) =>
        /\ pc = "returned"
        /\ result = ReturnFalse
        /\ NoRateIn(rnxdata)

\* ------------------------------------------------------------------ C6
\* The store has the epochs, satellites, flags, code ranges and phases of the
\* input; only D<f> of the processed bands may differ
SameButRates(store) ==
    /\ DOMAIN store = DOMAIN rnxdata
    /\ \A te \in DOMAIN rnxdata :
        /\ DOMAIN store[te] = DOMAIN rnxdata[te]
        /\ \A q \in DOMAIN rnxdata[te] :
            /\ DOMAIN rnxdata[te][q] \subseteq DOMAIN store[te][q]
            /\ DOMAIN store[te][q] \subseteq
                 DOMAIN rnxdata[te][q] \cup {DField(band) : band \in Processed}
            /\ \A k \in DOMAIN rnxdata[te][q] :
                 k \notin {DField(band) : band \in Processed}
                    => store[te][q][k] = rnxdata[te][q][k]

\* C6: in every state of a run the working store, and the returned store,
\* differ from the input store in the fields D<f> of processed bands only.
C6_OnlyRatesWritten ==
    /\ SameButRates(rnxout)
    /\ result.kind = "store" => SameButRates(result.store)

C6_Witness ==
    /\ Succeeded
    /\ \E te \in Epochs, q \in GoodSet :
        /\ HasRecord(rnxdata, te, q)
        /\ HasRate(result.store, te, q, 1)
        /\ ~RateAt(result.store, te, q, 1).nan
    /\ \E te \in Epochs, q \in GoodSet :
        /\ HasRecord(rnxdata, te, q)
        /\ HasRate(result.store, te, q, 1)
        /\ RateAt(result.store, te, q, 1) = NaN

\* ------------------------------------------------------------------ C7
\* C7: a second run on the output of a successful run returns a store with
\* the same D<f> at every (epoch, satellite, band).
C7_Idempotent ==
    Succeeded =>
        LET again == Dopest(result.store, goodsats, freqnum)
        IN /\ again.kind = "store"
           /\ \A te \in Epochs : \A q \in DOMAIN rnxdata[te] : \A band \in Bands :
                /\ HasRate(again.store, te, q, band)
                     <=> HasRate(result.store, te, q, band)
                /\ HasRate(result.store, te, q, band) =>
                     RateAt(again.store, te, q, band)
                        = RateAt(result.store, te, q, band)

C7_Witness ==
    /\ Succeeded
    /\ Dopest(result.store, goodsats, freqnum).kind = "store"
    /\ \E te \in Epochs, q \in GoodSet, band \in Processed :
        /\ HasRecord(rnxdata, te, q)
        /\ HasRate(result.store, te, q, band)
        /\ ~RateAt(result.store, te, q, band).nan
        /\ Len(RateAt(result.store, te, q, band).buf) >= 2

\* ------------------------------------------------------------------ C8
PhasesOf(q) == {PhaseOf(te, q, band) : te \in Epochs, band \in Bands}

\* C8: a satellite outside goodsats keeps its input records, and none of its
\* phase values is in the buffer or in the buffer a rate was computed from.
C8_OtherSatsIgnored ==
    \A q \in Sats \ GoodSet :
        /\ \A te \in Epochs :
            HasRecord(rnxdata, te, q) =>
                /\ HasRecord(rnxout, te, q)
                /\ rnxout[te][q] = rnxdata[te][q]
        /\ \A i \in 1..Len(L) : L[i] \notin PhasesOf(q)
        /\ \A i \in 1..Len(D) : \A j \in 1..Len(D[i].buf) :
                D[i].buf[j] \notin PhasesOf(q)

C8_Witness ==
    /\ Succeeded
    /\ \E q \in Sats \ GoodSet : \A te \in Epochs : HasRecord(rnxdata, te, q)
    /\ \E te \in Epochs, q \in GoodSet :
        /\ HasRecord(rnxdata, te, q)
        /\ HasRate(result.store, te, q, 1)
        /\ ~RateAt(result.store, te, q, 1).nan

\* ------------------------------------------------------------------ C9
Fields(rec) == DOMAIN rec

\* A step writes nothing but D<f> of records of the current satellite
WritesOwnRateOnly ==
    \A te \in Epochs : \A q \in DOMAIN rnxout[te] :
        /\ q \in DOMAIN rnxout'[te]
        /\ \A k \in Fields(rnxout'[te][q]) :
            (k \notin Fields(rnxout[te][q]) \/ rnxout'[te][q][k] # rnxout[te][q][k])
                => (q = p /\ k = DField(f))

PairSet == {[band |-> b, sat |-> q] : b \in Processed, q \in GoodSet}

Orders ==
    {o \in [1..Cardinality(PairSet) -> PairSet] :
        \A i, j \in 1..Cardinality(PairSet) : i # j => o[i] # o[j]}

\* The store returned is the one every order of the pairs ends with
SameForEveryOrder ==
    Succeeded =>
        \A o \in Orders :
            LET s == RunOrder(StartState(rnxdata), o)
            IN s.pc = "loop" /\ s.out = result.store

\* C9: every write made while the pair (p, f) is processed goes to D<f> of a
\* record of p, and the store of a successful run is the same for every
\* order in which the (satellite, band) pairs are processed.
C9_PairsIndependent ==
    /\ [][pc = "loop" => WritesOwnRateOnly]_vars
    /\ []SameForEveryOrder

C9_Witness ==
    /\ Succeeded
    /\ Cardinality(PairSet) = 4
    /\ \A q \in Sats, band \in Bands :
        \E te \in Epochs :
            /\ HasRecord(rnxdata, te, q)
            /\ HasRate(result.store, te, q, band)
            /\ ~RateAt(result.store, te, q, band).nan

\* ----------------------------------------------------------------- C10
AllIsolated(q) ==
    \A te \in Epochs :
        HasRecord(rnxdata, te, q) => InFlag(te, q) \in {"solo", "slip"}

\* C10: after a successful run a good satellite whose records are all solo
\* or slip has the sentinel in D<f> of every record and processed band, and
\* a rate other than the sentinel is on records of satellites with a record
\* flagged start, none or end only.
C10_IsolatedSatellites ==
    Succeeded =>
        /\ \A q \in GoodSet :
            AllIsolated(q) =>
                \A te \in Epochs, band \in Processed :
                    HasRecord(rnxdata, te, q) =>
                        /\ HasRate(result.store, te, q, band)
                        /\ RateAt(result.store, te, q, band) = NaN
        /\ \A q \in Sats, te \in Epochs, band \in Bands :
            (/\ HasRecord(rnxdata, te, q)
             /\ HasRate(result.store, te, q, band)
             /\ RateAt(result.store, te, q, band) # NaN)
            => \E tu \in Epochs :
                    HasRecord(rnxdata, tu, q) /\ InFlag(tu, q) \in ArcFlags

C10_Witness ==
    /\ Succeeded
    /\ \E q \in GoodSet :
        /\ \A te \in Epochs : HasRecord(rnxdata, te, q)
        /\ AllIsolated(q)
        /\ \E te \in Epochs : InFlag(te, q) = "slip"
        /\ \E te \in Epochs : InFlag(te, q) = "solo"
    /\ \E q \in GoodSet, te \in Epochs :
        /\ HasRecord(rnxdata, te, q)
        /\ HasRate(result.store, te, q, 1)
        /\ RateAt(result.store, te, q, 1) # NaN

\* ----------------------------------------------------------------- C11
\* The place of the iteration (band, i-th good satellite, epoch) in the order
\* of the three loops
Ord(band, i, te) == (((band - 1) * Len(goodsats)) + (i - 1)) * NumEpochs + te

\* The record visited at that place is flagged start, none or end and lacks
\* the phase of the band
MissingAt(band, i, te) ==
    /\ HasRecord(rnxdata, te, goodsats[i])
    /\ InFlag(te, goodsats[i]) \in ArcFlags
    /\ LField(band) \notin DOMAIN rnxdata[te][goodsats[i]]

\* C11: a run ends in one of two ways: the whole session was processed and
\* the store is returned, or the run aborted (False) at the first record, in
\* band, satellite, epoch order, that lacks its phase, and stopped there.
C11_TwoOutcomes ==
    Ended =>
        \/ /\ Succeeded
           /\ result.store = rnxout
           /\ Ord(f, pi, t) = freqnum * Len(goodsats) * NumEpochs
           /\ ~SomePhaseMissing
        \/ /\ pc = "returned"
           /\ result = ReturnFalse
           /\ MissingAt(f, pi, t)
           /\ \A band \in Processed, i \in 1..Len(goodsats), te \in Epochs :
                MissingAt(band, i, te) => Ord(f, pi, t) <= Ord(band, i, te)

\* ----------------------------------------------------------------- C13
\* C13: at the first epoch of every (satellite, band) pair the buffer is
\* empty, and at the start of every iteration 'arc ready' is false.
C13_FreshArcState ==
    pc = "loop" =>
        /\ dopp_condition = FALSE
        /\ t = 1 => L = <<>>

\* The second satellite starts after the first one left phases in the buffer
\* and after an estimation took place
C13_Witness ==
    /\ pc = "loop" /\ t = 1 /\ pi = 2 /\ f = 2
    /\ L = <<>> /\ dopp_condition = FALSE
    /\ D # <<>>
    /\ HasRecord(rnxdata, NumEpochs, goodsats[1])
    /\ InFlag(NumEpochs, goodsats[1]) \in {"start", "none"}

\* ----------------------------------------------------------------- C14
\* The step computes a new Doppler list: it performs an arc estimation
Estimates == D' # D

\* The satellite has an end record with the phase of the band at this epoch
AtEndRecord ==
    /\ HasRecord(rnxdata, t, p)
    /\ InFlag(t, p) = "end"
    /\ LField(f) \in DOMAIN rnxdata[t][p]

IsolatedPhases(q) ==
    UNION {{rnxdata[te][q][k] : k \in DOMAIN rnxdata[te][q] \cap {"L1", "L2"}} :
            te \in {x \in Epochs : HasRecord(rnxdata, x, q)
                                    /\ InFlag(x, q) \in {"solo", "slip"}}}

\* Nothing but D<f> of the record at the current epoch is written
WritesCurrentRateOnly ==
    \A te \in Epochs : \A q \in DOMAIN rnxout[te] :
        /\ q \in DOMAIN rnxout'[te]
        /\ \A k \in Fields(rnxout'[te][q]) :
            (k \notin Fields(rnxout[te][q]) \/ rnxout'[te][q][k] # rnxout[te][q][k])
                => (q = p /\ te = t /\ k = DField(f))

\* The buffer after an iteration that left it alone: the same, or the empty
\* buffer of line 87 when the iteration was the last one of its satellite
BufferKept == L' = L \/ (t = NumEpochs /\ L' = <<>>)

\* C15: an iteration at an epoch without a record of the satellite changes
\* neither the buffer, nor 'arc ready', nor the store; an iteration at a solo
\* or slip record leaves the buffer, clears 'arc ready' and writes the
\* sentinel to D<f> of that record only; no phase of a solo or slip record is
\* ever in a buffer.
C15_BufferChangesInArcOnly ==
    /\ [][pc = "loop" =>
            /\ ~HasRecord(rnxdata, t, p) =>
                /\ BufferKept
                /\ dopp_condition' = dopp_condition
                /\ rnxout' = rnxout
            /\ (HasRecord(rnxdata, t, p) /\ InFlag(t, p) \in {"solo", "slip"}) =>
                /\ BufferKept
                /\ dopp_condition' = FALSE
                /\ WritesCurrentRateOnly
                /\ HasRate(rnxout', t, p, f)
                /\ RateAt(rnxout', t, p, f) = NaN]_vars
    /\ [](pc = "loop" =>
            /\ \A i \in 1..Len(L) : L[i] \notin IsolatedPhases(p)
            /\ \A i \in 1..Len(D) : \A j \in 1..Len(D[i].buf) :
                    \A q \in GoodSet : D[i].buf[j] \notin IsolatedPhases(q))

\* A slip record was passed with a phase of an earlier epoch waiting in the
\* buffer
C15_Witness ==
    /\ pc = "loop" /\ pi = 1 /\ t = NumEpochs
    /\ Len(L) = 1
    /\ \E te \in Epochs :
        /\ te < t
        /\ HasRecord(rnxdata, te, p)
        /\ InFlag(te, p) = "slip"
        /\ HasRate(rnxout, te, p, f)
        /\ L[1] < rnxdata[te][p][LField(f)]

\* ----------------------------------------------------------------- C16
\* C16: when an estimation of n values runs at epoch t for satellite p, the
\* satellite has a record at every epoch t - k*step, k in 0..n-1, so that the
\* write-back of line 149 finds every key.
C16_WriteBackTargetsExist ==
    [][(pc = "loop" /\ Estimates) =>
        \A k \in 0..(Len(D') - 1) : HasRecord(rnxout, t - (k * rnxstep), p)]_vars

\* ----------------------------------------------------------------- C17
InRefs == {InRef(te, q) : te \in Epochs, q \in Sats}

\* C17: no step of a run changes the caller's store, on the way to the
\* returned store and on the way to the abort, and no record object of the
\* working store, which is the one returned, is an object of the caller's.
C17_InputUntouched ==
    /\ [][rnxdata' = rnxdata]_vars
    /\ [](\A r \in InRefs : CopyRef(r) \notin InRefs)

\* The run aborted after it had written rates to its working store
C17_Witness ==
    /\ pc = "returned"
    /\ result = ReturnFalse
    /\ \E te \in Epochs, q \in GoodSet :
        /\ HasRecord(rnxout, te, q)
        /\ HasRate(rnxout, te, q, 1)
        /\ ~RateAt(rnxout, te, q, 1).nan
        /\ ~HasRate(rnxdata, te, q, 1)

\* ----------------------------------------------------------------- C18
\* C18: the value line 144 takes from the step to scale the rates is the
\* whole duration of the step in seconds, and it is not zero, for every
\* positive step.
C18_DivisorIsStepDuration ==
    divisor # -1 =>
        /\ divisor * 1000000 = TotalMicroseconds(step)
        /\ divisor # 0

TypeOK ==
    /\ pc \in {"loop", "exit", "returned", "raised"}
    /\ f \in Bands /\ pi \in 1..Cardinality(Sats) /\ t \in Epochs
    /\ dopp_condition \in BOOLEAN

====
